---- MODULE Spec2Model ----
(***************************************************************************)
(* A model of the lexer / parser pipeline of yohaan.py.                    *)
(*                                                                         *)
(* A text is a sequence of one-character strings.  Objects are records     *)
(* with a "kind" field; Python's None is the record Null (for objects) or  *)
(* the string NoChar (for current_char).  A Position is [idx, ln, col];    *)
(* its fn and ftxt fields never change after construction and are left     *)
(* out.  One run(fn, text) call is one behaviour: the text is chosen in    *)
(* Init, every loop iteration of the lexer and every call, resumption and  *)
(* return of a parser function is one step.                                *)
(***************************************************************************)
EXTENDS Integers, Sequences, FiniteSets, TLC

VARIABLES
    text,          \* run's argument `text`
    pc,            \* where run() stands
    pos,           \* Lexer.pos, the one live cursor object
    current_char,  \* Lexer.current_char
    tokens,        \* make_tokens' local list, then Parser.tokens
    num_str,       \* make_number's local
    dot_count,     \* make_number's local
    pos_start,     \* make_number's local (a copy of the cursor)
    error,         \* the error make_tokens returned to run
    tok_idx,       \* Parser.tok_idx
    current_tok,   \* Parser.current_tok
    stack,         \* the parser's call stack, innermost frame last
    ret,           \* the ParseResult the last parser call returned
    result         \* run's return value [ast, error]

vars == <<text, pc, pos, current_char, tokens, num_str, dot_count, pos_start,
          error, tok_idx, current_tok, stack, ret, result>>

lexerVars == <<pos, current_char, tokens, num_str, dot_count, pos_start, error>>
parserVars == <<tok_idx, current_tok, stack, ret>>

-----------------------------------------------------------------------------
(* Bounds of the model *)

\* every text of at most MaxLen characters over Alphabet is an input
MaxLen == 3
\* every text of at most MaxToks lexemes of Lexemes is an input
MaxToks == 5
\* operand (operator operand)^k for k <= MaxOps is an input
MaxOps == 2
\* a run of at most MaxSigns unary signs before a factor is an input
MaxSigns == 3

-----------------------------------------------------------------------------
(* Constants of the program *)

DIGITS == {"0", "1", "2", "3", "4", "5", "6", "7", "8", "9"}

TT_INT == "INT"
TT_FLOAT == "FLOAT"
TT_PLUS == "PLUS"
TT_MINUS == "MINUS"
TT_MUL == "MUL"
TT_DIV == "DIV"
TT_LPAREN == "LPAREN"
TT_RPAREN == "RPAREN"
TT_EOF == "EOF"

Null == [kind |-> "None"]
NoChar == "None"

-----------------------------------------------------------------------------
(* Position *)

Position(idx, ln, col) == [idx |-> idx, ln |-> ln, col |-> col]

PositionAdvance_NoReset(p, ch) ==
    IF ch = "\n"
    THEN [idx |-> p.idx + 1, ln |-> p.ln + 1, col |-> p.col + 1]
    ELSE [idx |-> p.idx + 1, ln |-> p.ln, col |-> p.col + 1]

\* Position.advance(current_char)
PositionAdvance(p, ch) ==
    IF ch = "\n"
    THEN [idx |-> p.idx + 1, ln |-> p.ln + 1, col |-> 0]
    ELSE [idx |-> p.idx + 1, ln |-> p.ln, col |-> p.col + 1]

\* Position.copy()
PositionCopy(p) == Position(p.idx, p.ln, p.col)

-----------------------------------------------------------------------------
(* Errors *)

Error(ps, pe, error_name, details) ==
    [kind |-> "Error", pos_start |-> ps, pos_end |-> pe,
     error_name |-> error_name, details |-> details]

IllegalCharError_AsSyntax(ps, pe, details) == Error(ps, pe, "Invalid Syntax", details)

IllegalCharError(ps, pe, details) == Error(ps, pe, "Illegal Character", details)

InvalidSyntaxError_AsIllegal(ps, pe, details) == Error(ps, pe, "Illegal Character", details)

InvalidSyntaxError(ps, pe, details) == Error(ps, pe, "Invalid Syntax", details)

-----------------------------------------------------------------------------
(* Tokens *)

\* Token.__init__ with pos_start only: both ends are fresh copies.
\* end_is_cursor records whether pos_end is the caller's object (the live
\* cursor) rather than a copy owned by the token.
TokenAt(type_, ps) ==
    [kind |-> "Token", type |-> type_, value |-> Null,
     pos_start |-> PositionCopy(ps),
     pos_end |-> PositionAdvance(PositionCopy(ps), NoChar),
     end_is_cursor |-> FALSE]

\* Token.__init__ with pos_start and pos_end: pos_start is copied, pos_end is
\* stored as given (line 109), so the token shares the object it was handed.
TokenSpan(type_, value, ps, pe) ==
    [kind |-> "Token", type |-> type_, value |-> value,
     pos_start |-> PositionCopy(ps),
     pos_end |-> pe,
     end_is_cursor |-> TRUE]

DigitVal(c) ==
    CASE c = "0" -> 0 [] c = "1" -> 1 [] c = "2" -> 2 [] c = "3" -> 3
      [] c = "4" -> 4 [] c = "5" -> 5 [] c = "6" -> 6 [] c = "7" -> 7
      [] c = "8" -> 8 [] c = "9" -> 9

RECURSIVE Decimal(_)
\* the number a string of digits denotes
Decimal(s) ==
    IF s = <<>> THEN 0
    ELSE Decimal(SubSeq(s, 1, Len(s) - 1)) * 10 + DigitVal(s[Len(s)])

\* int(num_str) for a string of digits
IntOf(s) == [kind |-> "int", val |-> Decimal(s)]

RECURSIVE StripZeros(_)
StripZeros(s) ==
    IF s # <<>> /\ s[Len(s)] = "0" THEN StripZeros(SubSeq(s, 1, Len(s) - 1))
    ELSE s

DotAt(s) == CHOOSE i \in 1..Len(s) : s[i] = "."

\* float(num_str) for digits '.' digits: the whole part as a number and the
\* fraction digits without trailing zeros ("1.50" and "1.5" are one float)
FloatOf(s) ==
    [kind |-> "float",
     whole |-> Decimal(SubSeq(s, 1, DotAt(s) - 1)),
     frac |-> StripZeros(SubSeq(s, DotAt(s) + 1, Len(s)))]

-----------------------------------------------------------------------------
(* Lexer *)

CharAt_OffByOne(p) == IF p.idx + 1 < Len(text) THEN text[p.idx + 1] ELSE NoChar

\* Lexer.advance: the character under the cursor, None at or past the end
CharAt(p) == IF p.idx < Len(text) THEN text[p.idx + 1] ELSE NoChar

\* The cursor after Lexer.advance(): Position.advance gets the character
\* being left.
CursorAdvance(p, ch) == PositionAdvance(p, ch)

\* Lexer.advance() mutates the cursor object in place: every token whose
\* pos_end is that same object sees the new value.
Shared(toks, p) ==
    [i \in DOMAIN toks |->
        IF toks[i].end_is_cursor THEN [toks[i] EXCEPT !.pos_end = p] ELSE toks[i]]

\* Lexer.__init__
LexerInit ==
    /\ pc = "run"
    /\ pos' = CursorAdvance(pos, current_char)
    /\ current_char' = CharAt(pos')
    /\ pc' = "make_tokens"
    /\ UNCHANGED <<text, tokens, num_str, dot_count, pos_start, error>>
    /\ UNCHANGED <<parserVars, result>>

SkipWhitespace_NoAdvance ==
    /\ pc = "make_tokens"
    /\ current_char \in {" ", "\t"}
    /\ UNCHANGED vars

\* make_tokens, the ' \t' branch
SkipWhitespace ==
    /\ pc = "make_tokens"
    /\ current_char \in {" ", "\t"}
    /\ pos' = CursorAdvance(pos, current_char)
    /\ current_char' = CharAt(pos')
    /\ tokens' = Shared(tokens, pos')
    /\ UNCHANGED <<text, pc, num_str, dot_count, pos_start, error>>
    /\ UNCHANGED <<parserVars, result>>

\* make_tokens, the DIGITS branch up to make_number's loop
MakeNumberCall ==
    /\ pc = "make_tokens"
    /\ current_char \in DIGITS
    /\ num_str' = <<>>
    /\ dot_count' = 0
    /\ pos_start' = PositionCopy(pos)
    /\ pc' = "make_number"
    /\ UNCHANGED <<text, pos, current_char, tokens, error>>
    /\ UNCHANGED <<parserVars, result>>

\* the guard of make_number's while loop, with its break
NumberContinues ==
    /\ current_char # NoChar
    /\ current_char \in DIGITS \cup {"."}
    /\ ~(current_char = "." /\ dot_count = 1)

\* one iteration of make_number's loop that does not break
MakeNumberStep ==
    /\ pc = "make_number"
    /\ NumberContinues
    /\ dot_count' = IF current_char = "." THEN dot_count + 1 ELSE dot_count
    /\ num_str' = Append(num_str, current_char)
    /\ pos' = CursorAdvance(pos, current_char)
    /\ current_char' = CharAt(pos')
    /\ tokens' = Shared(tokens, pos')
    /\ UNCHANGED <<text, pc, pos_start, error>>
    /\ UNCHANGED <<parserVars, result>>

\* the token make_number returns
NumberToken(s, dots, ps, pe) ==
    IF dots = 0
    THEN TokenSpan(TT_INT, IntOf(s), ps, pe)
    ELSE TokenSpan(TT_FLOAT, FloatOf(s), ps, pe)

\* make_number leaves its loop and make_tokens appends the token
MakeNumberReturn ==
    /\ pc = "make_number"
    /\ ~NumberContinues
    /\ tokens' = Append(tokens, NumberToken(num_str, dot_count, pos_start, pos))
    /\ pc' = "make_tokens"
    /\ UNCHANGED <<text, pos, current_char, num_str, dot_count, pos_start, error>>
    /\ UNCHANGED <<parserVars, result>>

IsSingleChar(c) == c \in {"+", "-", "*", "/", "(", ")"}

SingleCharType(c) ==
    CASE c = "+" -> TT_PLUS
      [] c = "-" -> TT_MINUS
      [] c = "*" -> TT_MUL
      [] c = "/" -> TT_DIV
      [] c = "(" -> TT_LPAREN
      [] c = ")" -> TT_RPAREN

\* make_tokens, the six single-character branches
SingleCharToken ==
    /\ pc = "make_tokens"
    /\ IsSingleChar(current_char)
    /\ pos' = CursorAdvance(pos, current_char)
    /\ current_char' = CharAt(pos')
    /\ tokens' = Shared(Append(tokens, TokenAt(SingleCharType(current_char), pos)), pos')
    /\ UNCHANGED <<text, pc, num_str, dot_count, pos_start, error>>
    /\ UNCHANGED <<parserVars, result>>

IllegalCharAt_NoAdvance(ps, pe, char) == IllegalCharError(ps, ps, "'" \o char \o "'")

\* the error of make_tokens' else branch: the span is [start, cursor after advance]
IllegalCharAt(ps, pe, char) == IllegalCharError(ps, pe, "'" \o char \o "'")

\* make_tokens, the else branch: returns [], IllegalCharError
IllegalChar ==
    /\ pc = "make_tokens"
    /\ current_char # NoChar
    /\ current_char \notin {" ", "\t"}
    /\ current_char \notin DIGITS
    /\ ~IsSingleChar(current_char)
    /\ pos' = CursorAdvance(pos, current_char)
    /\ current_char' = CharAt(pos')
    /\ tokens' = <<>>
    /\ error' = IllegalCharAt(PositionCopy(pos), pos', current_char)
    /\ pc' = "lexed"
    /\ UNCHANGED <<text, num_str, dot_count, pos_start>>
    /\ UNCHANGED <<parserVars, result>>

EOFToken_Advanced(p) == TokenAt(TT_EOF, PositionAdvance(p, NoChar))

\* the token make_tokens appends after its loop
EOFToken(p) == TokenAt(TT_EOF, p)

\* make_tokens after the loop: appends EOF and returns tokens, None
EmitEOF ==
    /\ pc = "make_tokens"
    /\ current_char = NoChar
    /\ tokens' = Append(tokens, EOFToken(pos))
    /\ error' = Null
    /\ pc' = "lexed"
    /\ UNCHANGED <<text, pos, current_char, num_str, dot_count, pos_start>>
    /\ UNCHANGED <<parserVars, result>>

-----------------------------------------------------------------------------
\* run: `if error: return None, error`
RunLexError ==
    /\ pc = "lexed"
    /\ error # Null
    /\ result' = [ast |-> Null, error |-> error]
    /\ pc' = "done"
    /\ UNCHANGED <<text, lexerVars, parserVars>>

-----------------------------------------------------------------------------
(* Nodes and ParseResult *)

NumberNode(tok) == [kind |-> "NumberNode", tok |-> tok]

BinOpNode(left_node, op_tok, right_node) ==
    [kind |-> "BinOpNode", left_node |-> left_node, op_tok |-> op_tok,
     right_node |-> right_node]

UnaryOpNode(op_tok, node) == [kind |-> "UnaryOpNode", op_tok |-> op_tok, node |-> node]

\* ParseResult.__init__
ParseResult == [kind |-> "ParseResult", error |-> Null, node |-> Null]

\* ParseResult.register(res) for a ParseResult res: the registering result
\* after the call and the value handed back
Register(self, res) ==
    [self |-> IF res.error # Null THEN [self EXCEPT !.error = res.error] ELSE self,
     value |-> res.node]

\* ParseResult.success(node)
Success(self, node) == [self EXCEPT !.node = node]

\* ParseResult.failure(error)
Failure(self, err) == [self EXCEPT !.error = err]

-----------------------------------------------------------------------------
(* Parser *)

\* Parser.advance(): the new tok_idx and current_tok
ParserAdvance(idx, cur, toks) ==
    [tok_idx |-> idx + 1,
     current_tok |-> IF idx + 1 < Len(toks) THEN toks[idx + 2] ELSE cur]

\* A call frame.  fn is "parse", "expr", "term" or "factor"; an "expr" or
\* "term" frame is the bin_op call that expr() or term() returns.  res is the
\* function's ParseResult; tok is factor's tok or bin_op's op_tok; left is
\* bin_op's left.
Frame(fn, at) == [fn |-> fn, pc |-> at, res |-> ParseResult, tok |-> Null, left |-> Null]

Top == stack[Len(stack)]

\* the func argument term() and expr() pass to bin_op
Func(fn) == IF fn = "expr" THEN "term" ELSE "factor"

Ops_Swapped(fn) == IF fn = "expr" THEN {TT_MUL, TT_DIV} ELSE {TT_PLUS, TT_MINUS}

\* the ops argument term() and expr() pass to bin_op
Ops(fn) == IF fn = "expr" THEN {TT_PLUS, TT_MINUS} ELSE {TT_MUL, TT_DIV}

\* the running frame moves to `at` and calls fn
Call(frame, fn) == stack' = Append(SubSeq(stack, 1, Len(stack) - 1), frame) \o <<Frame(fn, "start")>>

\* the running frame returns r to its caller
Return(r) ==
    /\ stack' = SubSeq(stack, 1, Len(stack) - 1)
    /\ ret' = r

\* the running frame goes on as `frame`
Goto(frame) == stack' = Append(SubSeq(stack, 1, Len(stack) - 1), frame)

Running(fns, at) ==
    /\ pc = "parse"
    /\ stack # <<>>
    /\ Top.fn \in fns
    /\ Top.pc = at

\* run: `parser = Parser(tokens)`; Parser.__init__ advances once
ParserInit ==
    /\ pc = "lexed"
    /\ error = Null
    /\ LET a == ParserAdvance(-1, current_tok, tokens)
       IN /\ tok_idx' = a.tok_idx
          /\ current_tok' = a.current_tok
    /\ pc' = "parser"
    /\ UNCHANGED <<text, lexerVars, stack, ret, result>>

\* run calls parser.parse(), which calls self.expr()
ParseCall ==
    /\ pc = "parser"
    /\ stack' = <<Frame("parse", "expr"), Frame("expr", "start")>>
    /\ pc' = "parse"
    /\ UNCHANGED <<text, lexerVars, tok_idx, current_tok, ret, result>>

\* bin_op: res = ParseResult(); left = res.register(func()), up to the call
BinOpStart ==
    /\ Running({"expr", "term"}, "start")
    /\ Call([Top EXCEPT !.pc = "left"], Func(Top.fn))
    /\ UNCHANGED <<text, pc, lexerVars, tok_idx, current_tok, ret, result>>

\* bin_op: func() has returned the left operand
BinOpLeft ==
    /\ Running({"expr", "term"}, "left")
    /\ LET r == Register(Top.res, ret)
       IN IF r.self.error # Null
          THEN Return(r.self)
          ELSE /\ Goto([Top EXCEPT !.pc = "loop", !.res = r.self, !.left = r.value])
               /\ UNCHANGED ret
    /\ UNCHANGED <<text, pc, lexerVars, tok_idx, current_tok, result>>

\* bin_op: the while test; the operator is consumed and func() called
BinOpOperator ==
    /\ Running({"expr", "term"}, "loop")
    /\ current_tok.type \in Ops(Top.fn)
    /\ LET a == ParserAdvance(tok_idx, current_tok, tokens)
       IN /\ tok_idx' = a.tok_idx
          /\ current_tok' = a.current_tok
    /\ Call([Top EXCEPT !.pc = "right", !.tok = current_tok], Func(Top.fn))
    /\ UNCHANGED <<text, pc, lexerVars, ret, result>>

Fold_Swapped(left, op_tok, right) == BinOpNode(right, op_tok, left)

\* bin_op: `left = BinOpNode(left, op_tok, right)`
Fold(left, op_tok, right) == BinOpNode(left, op_tok, right)

\* bin_op: func() has returned the right operand
BinOpRight ==
    /\ Running({"expr", "term"}, "right")
    /\ LET r == Register(Top.res, ret)
       IN IF r.self.error # Null
          THEN Return(r.self)
          ELSE /\ Goto([Top EXCEPT !.pc = "loop", !.res = r.self,
                                   !.left = Fold(Top.left, Top.tok, r.value)])
               /\ UNCHANGED ret
    /\ UNCHANGED <<text, pc, lexerVars, tok_idx, current_tok, result>>

\* bin_op: the while test fails; return res.success(left)
BinOpReturn ==
    /\ Running({"expr", "term"}, "loop")
    /\ current_tok.type \notin Ops(Top.fn)
    /\ Return(Success(Top.res, Top.left))
    /\ UNCHANGED <<text, pc, lexerVars, tok_idx, current_tok, result>>

UnaryOperand_Term == "term"

\* the function factor calls for the operand of a unary operator
UnaryOperand == "factor"

\* factor on '+' or '-': consume it and call factor
FactorSign ==
    /\ Running({"factor"}, "start")
    /\ current_tok.type \in {TT_PLUS, TT_MINUS}
    /\ LET a == ParserAdvance(tok_idx, current_tok, tokens)
       IN /\ tok_idx' = a.tok_idx
          /\ current_tok' = a.current_tok
    /\ Call([Top EXCEPT !.pc = "unary", !.tok = current_tok], UnaryOperand)
    /\ UNCHANGED <<text, pc, lexerVars, ret, result>>

\* factor: the operand of a unary operator has returned
FactorUnary ==
    /\ Running({"factor"}, "unary")
    /\ LET r == Register(Top.res, ret)
       IN IF r.self.error # Null
          THEN Return(r.self)
          ELSE Return(Success(r.self, UnaryOpNode(Top.tok, r.value)))
    /\ UNCHANGED <<text, pc, lexerVars, tok_idx, current_tok, result>>

\* factor on INT or FLOAT: consume it and return a NumberNode
FactorNumber ==
    /\ Running({"factor"}, "start")
    /\ current_tok.type \in {TT_INT, TT_FLOAT}
    /\ LET a == ParserAdvance(tok_idx, current_tok, tokens)
       IN /\ tok_idx' = a.tok_idx
          /\ current_tok' = a.current_tok
    /\ Return(Success(Top.res, NumberNode(current_tok)))
    /\ UNCHANGED <<text, pc, lexerVars, result>>

ParenBody_Term == "term"

\* the function factor calls after '('
ParenBody == "expr"

\* factor on '(': consume it and call expr
FactorParen ==
    /\ Running({"factor"}, "start")
    /\ current_tok.type = TT_LPAREN
    /\ LET a == ParserAdvance(tok_idx, current_tok, tokens)
       IN /\ tok_idx' = a.tok_idx
          /\ current_tok' = a.current_tok
    /\ Call([Top EXCEPT !.pc = "paren", !.tok = current_tok], ParenBody)
    /\ UNCHANGED <<text, pc, lexerVars, ret, result>>

ExpectedRParen_AtOpening(tok, cur) ==
    InvalidSyntaxError(tok.pos_start, tok.pos_end, "Expected ')'")

\* the error factor builds when ')' is missing; tok is the '(' factor
\* started on, cur the current token
ExpectedRParen(tok, cur) ==
    InvalidSyntaxError(cur.pos_start, cur.pos_end, "Expected ')'")

\* the AST factor returns for '(' expr ')'
ParenNode(expr) == expr

\* factor: the expr inside parentheses has returned
FactorParenClose ==
    /\ Running({"factor"}, "paren")
    /\ LET r == Register(Top.res, ret)
       IN IF r.self.error # Null
          THEN /\ Return(r.self)
               /\ UNCHANGED <<tok_idx, current_tok>>
          ELSE IF current_tok.type = TT_RPAREN
          THEN /\ LET a == ParserAdvance(tok_idx, current_tok, tokens)
                  IN /\ tok_idx' = a.tok_idx
                     /\ current_tok' = a.current_tok
               /\ Return(Success(r.self, ParenNode(r.value)))
          ELSE /\ Return(Failure(r.self, ExpectedRParen(Top.tok, current_tok)))
               /\ UNCHANGED <<tok_idx, current_tok>>
    /\ UNCHANGED <<text, pc, lexerVars, result>>

ExpectedNumber_WrongDetail(tok) == InvalidSyntaxError(tok.pos_start, tok.pos_end, "Expected ')'")

\* the error factor builds on any other token
ExpectedNumber(tok) == InvalidSyntaxError(tok.pos_start, tok.pos_end, "Expected number or '('")

FactorFail_Advancing ==
    /\ Running({"factor"}, "start")
    /\ current_tok.type \notin {TT_PLUS, TT_MINUS, TT_INT, TT_FLOAT, TT_LPAREN}
    /\ LET a == ParserAdvance(tok_idx, current_tok, tokens)
       IN /\ tok_idx' = a.tok_idx
          /\ current_tok' = a.current_tok
    /\ Return(Failure(Top.res, ExpectedNumber(current_tok)))
    /\ UNCHANGED <<text, pc, lexerVars, result>>

\* factor on any other token
FactorFail ==
    /\ Running({"factor"}, "start")
    /\ current_tok.type \notin {TT_PLUS, TT_MINUS, TT_INT, TT_FLOAT, TT_LPAREN}
    /\ Return(Failure(Top.res, ExpectedNumber(current_tok)))
    /\ UNCHANGED <<text, pc, lexerVars, tok_idx, current_tok, result>>

\* the error parse builds when tokens are left over
ExpectedOperator(cur) ==
    InvalidSyntaxError(cur.pos_start, cur.pos_end, "Expected '+', '-', '*' or '/'")

ParseCheck_NoEOF(res, cur) == res

ParseCheck_Overwrites(res, cur) ==
    IF cur.type # TT_EOF
    THEN [res EXCEPT !.error = InvalidSyntaxError(cur.pos_start, cur.pos_end,
                                                  "Expected '+', '-', '*' or '/'")]
    ELSE res

\* what parse returns, given the result of expr() and the current token
ParseCheck(res, cur) ==
    IF res.error = Null /\ cur.type # TT_EOF
    THEN Failure(res, ExpectedOperator(cur))
    ELSE res

\* parse: expr() has returned
ParseReturn ==
    /\ Running({"parse"}, "expr")
    /\ Return(ParseCheck(ret, current_tok))
    /\ pc' = "parsed"
    /\ UNCHANGED <<text, lexerVars, tok_idx, current_tok, result>>

\* run: `return ast.node, ast.error`
RunReturn ==
    /\ pc = "parsed"
    /\ result' = [ast |-> ret.node, error |-> ret.error]
    /\ pc' = "done"
    /\ UNCHANGED <<text, lexerVars, parserVars>>

-----------------------------------------------------------------------------
(* Inputs *)

Alphabet == {"1", "2", ".", "+", "-", "*", "/", "(", ")", " ", "\t", "\n", "@"}

\* every text of at most MaxLen characters
ShortTexts == UNION {[1..n -> Alphabet] : n \in 0..MaxLen}

RECURSIVE Flatten(_)
Flatten(ss) == IF ss = <<>> THEN <<>> ELSE Head(ss) \o Flatten(Tail(ss))

Lexemes == {<<"1">>, <<"+">>, <<"*">>, <<"(">>, <<")">>}

\* every text of at most MaxToks lexemes
TokTexts == {Flatten(ls) : ls \in UNION {[1..n -> Lexemes] : n \in 0..MaxToks}}

Operands == {<<"7">>, <<"1", "2">>, <<"3", ".", "5", "0">>}
AddOps == {<<"+">>, <<"-">>}
MulOps == {<<"*">>, <<"/">>}

RECURSIVE Chains(_)
\* operand (operator operand)^k
Chains(k) ==
    IF k = 0 THEN Operands
    ELSE {c \o o \o a : c \in Chains(k - 1), o \in AddOps \cup MulOps, a \in Operands}

ChainTexts == UNION {Chains(k) : k \in 0..MaxOps}

\* nothing, an operand, or an operator and an operand
Tails == {<<>>} \cup Operands \cup {o \o a : o \in AddOps \cup MulOps, a \in Operands}

\* sign^k factor tail, for 1 <= k <= MaxSigns
SignTexts ==
    {Flatten(ss) \o f \o t :
        ss \in UNION {[1..k -> AddOps] : k \in 1..MaxSigns},
        f \in Operands \cup {<<"(", "7", ")">>},
        t \in Tails}

\* '(' chain, closed or not, and a tail
ParenTexts ==
    {<<"(">> \o c \o r \o t :
        c \in Chains(0) \cup Chains(1),
        r \in {<<>>, <<")">>, <<" ">>},
        t \in Tails}

\* "2 + 3 * 4", "8 - 3 - 2", "(2 + 3) * 4", "3.14.15", "1 + @", "(1 + 2", "1 + 2 )",
\* "1 2 3", "7 12 ", "1\n2"
CaseTexts ==
    {<<"2", " ", "+", " ", "3", " ", "*", " ", "4">>,
     <<"8", " ", "-", " ", "3", " ", "-", " ", "2">>,
     <<"(", "2", " ", "+", " ", "3", ")", " ", "*", " ", "4">>,
     <<"3", ".", "1", "4", ".", "1", "5">>,
     <<"1", " ", "+", " ", "@">>,
     <<"(", "1", " ", "+", " ", "2">>,
     <<"1", " ", "+", " ", "2", " ", ")">>,
     <<"1", " ", "2", " ", "3">>,
     <<"7", " ", "1", "2", " ">>,
     <<"1", "\n", "2">>}

Texts ==
    ShortTexts \cup TokTexts \cup ChainTexts \cup SignTexts \cup ParenTexts \cup CaseTexts

Init ==
    /\ text \in Texts
    /\ pc = "run"
    /\ pos = Position(-1, 0, -1)
    /\ current_char = NoChar
    /\ tokens = <<>>
    /\ num_str = <<>>
    /\ dot_count = 0
    /\ pos_start = Null
    /\ error = Null
    /\ tok_idx = -1
    /\ current_tok = Null
    /\ stack = <<>>
    /\ ret = Null
    /\ result = Null

Next ==
    \/ LexerInit
    \/ SkipWhitespace
    \/ MakeNumberCall
    \/ MakeNumberStep
    \/ MakeNumberReturn
    \/ SingleCharToken
    \/ IllegalChar
    \/ EmitEOF
    \/ RunLexError
    \/ ParserInit
    \/ ParseCall
    \/ BinOpStart
    \/ BinOpLeft
    \/ BinOpOperator
    \/ BinOpRight
    \/ BinOpReturn
    \/ FactorSign
    \/ FactorUnary
    \/ FactorNumber
    \/ FactorParen
    \/ FactorParenClose
    \/ FactorFail
    \/ ParseReturn
    \/ RunReturn

Spec == Init /\ [][Next]_vars

\* run is one sequential call: a step that can be taken is taken
FairSpec == Spec /\ WF_vars(Next)

-----------------------------------------------------------------------------
(* Properties *)

Done == pc = "done"

ErrName(e) == IF e = Null THEN "" ELSE e.error_name

\* C1: run returns a pair with exactly one non-null component: the AST on
\* success, the error on every lexical or syntax failure.
C1_ExactlyOne == Done => ((result.ast # Null) # (result.error # Null))

\* the index just after the literal make_number scanned last
NumEnd == pos_start.idx + Len(num_str)

\* make_number's last scan is over, consumed one '.', and stopped at another
StoppedAtSecondDot ==
    /\ pc # "make_number"
    /\ num_str # <<>>
    /\ dot_count = 1
    /\ NumEnd < Len(text)
    /\ text[NumEnd + 1] = "."

\* C2 as claimed: when number scanning stops at a second '.', the lexer
\* raises no error, tokenization succeeds and run fails with InvalidSyntax.
C2_SecondDotIsSyntaxError ==
    StoppedAtSecondDot =>
        /\ pc = "lexed" => error = Null
        /\ Done => ErrName(result.error) = "Invalid Syntax"

\* C2 as amended: when number scanning stops at a second '.', make_number
\* emits one Float token for the characters consumed so far and leaves the
\* '.' unconsumed; make_tokens then rejects that '.': no tokens are handed
\* back and run returns a null AST and an IllegalCharacter error whose span
\* is the second '.'.
C2_SecondDotIsIllegalChar ==
    StoppedAtSecondDot =>
        /\ (pc = "make_tokens" /\ pos.idx = NumEnd) =>
              /\ current_char = "."
              /\ tokens # <<>>
              /\ LET t == tokens[Len(tokens)]
                 IN /\ t.type = TT_FLOAT
                    /\ t.value = FloatOf(num_str)
                    /\ t.pos_start.idx = pos_start.idx
                    /\ num_str = SubSeq(text, pos_start.idx + 1, NumEnd)
        /\ pc \in {"lexed", "done"} =>
              /\ tokens = <<>>
              /\ ErrName(error) = "Illegal Character"
              /\ error.details = "'.'"
              /\ error.pos_start.idx = NumEnd
              /\ error.pos_end.idx = NumEnd + 1
        /\ Done => result = [ast |-> Null, error |-> error]

C2_Witness == Done /\ StoppedAtSecondDot /\ Len(num_str) >= 4

\* C3: once a token is constructed, no later step changes its start or end
\* position.
C3_TokensAreSnapshots ==
    [][\A i \in DOMAIN tokens :
          i \in DOMAIN tokens' =>
              /\ tokens'[i].pos_start = tokens[i].pos_start
              /\ tokens'[i].pos_end = tokens[i].pos_end]_vars

-----------------------------------------------------------------------------
(* The grammar, as a relation on token types:                              *)
(*   expr := term (('+'|'-') term)*     term := factor (('*'|'/') factor)* *)
(*   factor := ('+'|'-') factor | INT | FLOAT | '(' expr ')'               *)
(* IsExpr(w, i, j) says that w[i..j] is derivable from expr.               *)

RECURSIVE IsExpr(_, _, _), IsTerm(_, _, _), IsFactor(_, _, _)
IsFactor(w, i, j) ==
    \/ i = j /\ w[i] \in {TT_INT, TT_FLOAT}
    \/ i < j /\ w[i] \in {TT_PLUS, TT_MINUS} /\ IsFactor(w, i + 1, j)
    \/ i + 1 < j /\ w[i] = TT_LPAREN /\ w[j] = TT_RPAREN /\ IsExpr(w, i + 1, j - 1)
IsTerm(w, i, j) ==
    \/ IsFactor(w, i, j)
    \/ \E k \in (i + 1)..(j - 1) :
          w[k] \in {TT_MUL, TT_DIV} /\ IsFactor(w, k + 1, j) /\ IsTerm(w, i, k - 1)
IsExpr(w, i, j) ==
    \/ IsTerm(w, i, j)
    \/ \E k \in (i + 1)..(j - 1) :
          w[k] \in {TT_PLUS, TT_MINUS} /\ IsTerm(w, k + 1, j) /\ IsExpr(w, i, k - 1)

\* the types of the tokens before EOF
Types == [i \in 1..(Len(tokens) - 1) |-> tokens[i].type]

Derivable == Len(tokens) >= 2 /\ IsExpr(Types, 1, Len(tokens) - 1)

Accepted == result.ast # Null /\ result.error = Null

\* C4: for a text that tokenizes without error, run returns a non-null AST
\* and a null error if and only if the tokens before EOF are derivable from
\* expr.
C4_AcceptsTheGrammar == (Done /\ error = Null) => (Accepted <=> Derivable)

C4_Witness ==
    /\ Done /\ error = Null /\ Accepted
    /\ \E i \in DOMAIN tokens : tokens[i].type = TT_RPAREN
    /\ \E i \in DOMAIN tokens : tokens[i].type = TT_MUL

IsNum(t) == t.type \in {TT_INT, TT_FLOAT}
IsAdd(t) == t.type \in {TT_PLUS, TT_MINUS}
IsMul(t) == t.type \in {TT_MUL, TT_DIV}
IsSign(t) == t.type \in {TT_PLUS, TT_MINUS}

\* the leaf for token i
Num(i) == NumberNode(tokens[i])

\* C5: the tokens a op1 b op2 c with op1 additive and op2 multiplicative
\* parse as BinaryOp(a, op1, BinaryOp(b, op2, c)); with op1 multiplicative
\* and op2 additive as BinaryOp(BinaryOp(a, op1, b), op2, c).
C5_Precedence ==
    (/\ Done /\ error = Null /\ Len(tokens) = 6
     /\ IsNum(tokens[1]) /\ IsNum(tokens[3]) /\ IsNum(tokens[5])) =>
        /\ (IsAdd(tokens[2]) /\ IsMul(tokens[4])) =>
              result = [ast |-> BinOpNode(Num(1), tokens[2],
                                          BinOpNode(Num(3), tokens[4], Num(5))),
                        error |-> Null]
        /\ (IsMul(tokens[2]) /\ IsAdd(tokens[4])) =>
              result = [ast |-> BinOpNode(BinOpNode(Num(1), tokens[2], Num(3)),
                                          tokens[4], Num(5)),
                        error |-> Null]

C5_Witness ==
    /\ Done /\ error = Null /\ Len(tokens) = 6
    /\ tokens[1].type = TT_FLOAT /\ IsNum(tokens[3]) /\ IsNum(tokens[5])
    /\ tokens[2].type = TT_MINUS /\ tokens[4].type = TT_DIV
    /\ result.ast # Null

\* the tokens are x1 o1 x2 ... o(n-1) xn EOF with every operator in ops
IsChain(n, ops) ==
    /\ Len(tokens) = 2 * n
    /\ \A i \in 1..n : IsNum(tokens[2 * i - 1])
    /\ \A i \in 1..(n - 1) : tokens[2 * i].type \in ops

RECURSIVE LeftFold(_)
\* BinaryOp(...BinaryOp(BinaryOp(x1, o1, x2), o2, x3)..., o(k-1), xk)
LeftFold(k) ==
    IF k = 1 THEN Num(1)
    ELSE BinOpNode(LeftFold(k - 1), tokens[2 * k - 2], Num(2 * k - 1))

\* C6: operands x1..xn (n >= 2) joined by operators that are all additive or
\* all multiplicative parse as the left fold, in source order.
C6_LeftAssociative ==
    (Done /\ error = Null) =>
        \A n \in 2..(Len(tokens) \div 2) :
            (IsChain(n, {TT_PLUS, TT_MINUS}) \/ IsChain(n, {TT_MUL, TT_DIV})) =>
                result = [ast |-> LeftFold(n), error |-> Null]

C6_Witness ==
    /\ Done /\ error = Null
    /\ IsChain(3, {TT_MUL, TT_DIV})
    /\ tokens[2].type # tokens[4].type
    /\ result.ast # Null

RECURSIVE UnaryNest(_, _, _)
\* UnaryOp(s_i, UnaryOp(s_i+1, ... UnaryOp(s_k, f)))
UnaryNest(i, k, f) ==
    IF i > k THEN f ELSE UnaryOpNode(tokens[i], UnaryNest(i + 1, k, f))

\* tokens 1..k are signs
Signs(k) == \A i \in 1..k : IsSign(tokens[i])

\* C7: k >= 1 signs and a factor f (a number, or a number in parentheses)
\* parse as UnaryOp(s1, ... UnaryOp(sk, f)), and s a op b with op
\* multiplicative parses as BinaryOp(UnaryOp(s, a), op, b).
C7_UnaryNesting ==
    (Done /\ error = Null) =>
        /\ \A k \in 1..Len(tokens) :
              /\ (Len(tokens) = k + 2 /\ Signs(k) /\ IsNum(tokens[k + 1])) =>
                    result = [ast |-> UnaryNest(1, k, Num(k + 1)), error |-> Null]
              /\ (/\ Len(tokens) = k + 4 /\ Signs(k)
                  /\ tokens[k + 1].type = TT_LPAREN
                  /\ IsNum(tokens[k + 2])
                  /\ tokens[k + 3].type = TT_RPAREN) =>
                    result = [ast |-> UnaryNest(1, k, Num(k + 2)), error |-> Null]
        /\ (/\ Len(tokens) = 5 /\ IsSign(tokens[1]) /\ IsNum(tokens[2])
            /\ IsMul(tokens[3]) /\ IsNum(tokens[4])) =>
              result = [ast |-> BinOpNode(UnaryOpNode(tokens[1], Num(2)), tokens[3], Num(4)),
                        error |-> Null]

C7_Witness ==
    /\ Done /\ error = Null
    /\ Len(tokens) = 5 /\ Signs(3) /\ IsNum(tokens[4])
    /\ tokens[1].type # tokens[2].type
    /\ result.ast # Null

\* factor is about to return from its '(' branch with ')' present
ClosingParen ==
    /\ Running({"factor"}, "paren")
    /\ ret.error = Null
    /\ current_tok.type = TT_RPAREN

\* C8: '(' e ')' as a factor parses to exactly the AST of e, and the tokens
\* ( a op1 b ) op2 c with op1 additive and op2 multiplicative parse as
\* BinaryOp(BinaryOp(a, op1, b), op2, c).
C8_Grouping ==
    /\ [][ClosingParen => ret' = [ParseResult EXCEPT !.node = ret.node]]_vars
    /\ [](( /\ Done /\ error = Null /\ Len(tokens) = 8
            /\ tokens[1].type = TT_LPAREN /\ IsNum(tokens[2]) /\ IsAdd(tokens[3])
            /\ IsNum(tokens[4]) /\ tokens[5].type = TT_RPAREN /\ IsMul(tokens[6])
            /\ IsNum(tokens[7])) =>
              result = [ast |-> BinOpNode(BinOpNode(Num(2), tokens[3], Num(4)),
                                          tokens[6], Num(7)),
                        error |-> Null])

C8_Witness ==
    /\ Done /\ error = Null /\ Len(tokens) = 8
    /\ tokens[1].type = TT_LPAREN /\ IsNum(tokens[2]) /\ IsAdd(tokens[3])
    /\ IsNum(tokens[4]) /\ tokens[5].type = TT_RPAREN /\ IsMul(tokens[6])
    /\ IsNum(tokens[7])
    /\ result.ast # Null

RECURSIVE FirstBad(_, _, _)
\* the 1-based index of the first character of the text that is not
\* whitespace, not part of a number literal and not one of + - * / ( ), or 0.
\* A '.' is part of a number literal when it follows the digits of a literal
\* that holds no '.' yet.
FirstBad(i, inNumber, dots) ==
    IF i > Len(text) THEN 0
    ELSE IF text[i] \in DIGITS THEN FirstBad(i + 1, TRUE, IF inNumber THEN dots ELSE 0)
    ELSE IF text[i] = "."
         THEN IF inNumber /\ dots = 0 THEN FirstBad(i + 1, TRUE, 1) ELSE i
    ELSE IF text[i] \in {" ", "\t", "+", "-", "*", "/", "(", ")"}
         THEN FirstBad(i + 1, FALSE, 0)
    ELSE i

\* C9: if the first such character stands at index i, run returns a null AST
\* and an IllegalCharacter error spanning [i, i+1) whose detail is the
\* character in single quotes, and make_tokens hands back no tokens.
C9_IllegalCharacter ==
    LET bad == FirstBad(1, FALSE, 0)
    IN  (pc \in {"lexed", "done"} /\ bad > 0) =>
            /\ tokens = <<>>
            /\ ErrName(error) = "Illegal Character"
            /\ error.pos_start.idx = bad - 1
            /\ error.pos_end.idx = bad
            /\ error.details = "'" \o text[bad] \o "'"
            /\ Done => result = [ast |-> Null, error |-> error]

C9_Witness ==
    /\ Done
    /\ FirstBad(1, FALSE, 0) = 5
    /\ text[5] = "@"
    /\ result.ast = Null

\* factor has parsed '(' expr without error and the current token is not ')'
MissingParen ==
    /\ Running({"factor"}, "paren")
    /\ ret.error = Null
    /\ current_tok.type # TT_RPAREN

\* C10: then factor fails with InvalidSyntax "Expected ')'" spanning the
\* current token, which is EOF (start index: the text length) when the input
\* has ended.
C10_ExpectedRParen ==
    [][MissingParen =>
        /\ ret'.node = Null
        /\ ret'.error = [kind |-> "Error", error_name |-> "Invalid Syntax",
                         details |-> "Expected ')'",
                         pos_start |-> current_tok.pos_start,
                         pos_end |-> current_tok.pos_end]
        /\ current_tok' = current_tok
        /\ (tok_idx = Len(tokens) - 1) =>
              (current_tok.type = TT_EOF /\ ret'.error.pos_start.idx = Len(text))]_vars

C10_Witness ==
    /\ Done
    /\ ErrName(result.error) = "Invalid Syntax"
    /\ result.error.details = "Expected ')'"
    /\ result.error.pos_start.idx = Len(text)
    /\ Len(tokens) >= 5

RECURSIVE LiteralEnd(_, _)
\* the index just after the number literal of the text that holds index i,
\* given the number of '.' the literal holds before i
LiteralEnd(i, dots) ==
    IF i < Len(text) /\ text[i + 1] \in DIGITS THEN LiteralEnd(i + 1, dots)
    ELSE IF i < Len(text) /\ text[i + 1] = "." /\ dots = 0 THEN LiteralEnd(i + 1, 1)
    ELSE i

\* the index just after the last character of token t
TokenEnd(t) ==
    IF IsNum(t) THEN LiteralEnd(t.pos_start.idx, 0) ELSE t.pos_start.idx + 1

\* expr has succeeded at top level and the current token is not EOF
TrailingToken ==
    /\ Running({"parse"}, "expr")
    /\ ret.error = Null
    /\ current_tok.type # TT_EOF

\* C11: then parse fails with InvalidSyntax "Expected '+', '-', '*' or '/'"
\* whose start index is the index of the first character of the first
\* unconsumed token and whose end index is the index just after its last
\* character.
C11_TrailingTokenSpan ==
    [][TrailingToken =>
        /\ ErrName(ret'.error) = "Invalid Syntax"
        /\ ret'.error.details = "Expected '+', '-', '*' or '/'"
        /\ ret'.error.pos_start.idx = current_tok.pos_start.idx
        /\ ret'.error.pos_end.idx = TokenEnd(current_tok)]_vars

\* make_tokens has returned tokens, None
Tokenized == pc \in {"lexed", "parser", "parse", "parsed", "done"} /\ error = Null

C13_NumberEnd ==
    Tokenized =>
        \A i \in DOMAIN tokens :
            IsNum(tokens[i]) =>
                tokens[i].pos_end.idx = LiteralEnd(tokens[i].pos_start.idx, 0)

\* a parser function has returned an error
ErrorProduced == pc \in {"parse", "parsed"} /\ ret # Null /\ ret.error # Null

\* C14: once a parser function has produced an error, every further step
\* only hands that error up: no token is consumed, no node is built (the
\* frame is left and the result's node stays as it is), the error keeps its
\* kind, span and detail, and run returns it.
C14_FirstErrorKept ==
    [][ErrorProduced =>
        /\ tok_idx' = tok_idx
        /\ current_tok' = current_tok
        /\ ret'.error = ret.error
        /\ ret'.node = ret.node
        /\ pc = "parse" => stack' = SubSeq(stack, 1, Len(stack) - 1)
        /\ pc = "parsed" => result' = [ast |-> ret.node, error |-> ret.error]]_vars

C14_Witness ==
    /\ Done
    /\ ErrName(result.error) = "Invalid Syntax"
    /\ result.error.details = "Expected number or '('"
    /\ current_tok.type = TT_RPAREN
    /\ tok_idx >= 3

\* a lexer loop iteration advances the cursor by one character or leaves the
\* loop it is in
LexerProgress ==
    pc \in {"make_tokens", "make_number"} =>
        (pos'.idx = pos.idx + 1 \/ pc' # pc)

\* a parser step that calls: expr and term start by calling the next lower
\* function; a call from factor, or from bin_op's loop, comes after one token
\* has been consumed
ParserProgress ==
    (pc = "parse" /\ pc' = "parse" /\ Len(stack') > Len(stack)) =>
        IF Top.fn \in {"expr", "term"} /\ Top.pc = "start"
        THEN /\ stack'[Len(stack')].fn = (IF Top.fn = "expr" THEN "term" ELSE "factor")
             /\ tok_idx' = tok_idx
        ELSE tok_idx' = tok_idx + 1

\* C15: run terminates on every text: every lexer iteration advances the
\* cursor or returns, every parser call that recurses or loops again has
\* consumed a token, and run reaches its return.
C15_Terminates ==
    /\ [][LexerProgress /\ ParserProgress]_vars
    /\ <>Done

C15_Witness ==
    /\ Done
    /\ error = Null
    /\ Len(tokens) >= 6
    /\ \E i \in DOMAIN text : text[i] = " "
    /\ \E i \in DOMAIN tokens : tokens[i].type = TT_LPAREN

\* q is p after one Position.advance call: over a newline if newline holds
Advanced(p, q, newline) ==
    /\ q.idx = p.idx + 1
    /\ newline => (q.ln = p.ln + 1 /\ q.col = 0)
    /\ ~newline => (q.ln = p.ln /\ q.col = p.col + 1)

\* C16: every Position.advance call adds exactly 1 to the index; it adds 1
\* to the line and sets the column to 0 if and only if the character passed
\* is a newline, and otherwise keeps the line and adds 1 to the column.  The
\* lexer passes the character it leaves, so its cursor is at index 0, line 0,
\* column 0 after construction; a token built from its start alone ends one
\* advance(None) after its start.
C16_PositionAdvance ==
    /\ [][/\ pos' # pos => Advanced(pos, pos', current_char = "\n")
          /\ pc = "run" => pos' = [idx |-> 0, ln |-> 0, col |-> 0]]_vars
    /\ [](\A i \in DOMAIN tokens :
            ~tokens[i].end_is_cursor =>
                Advanced(tokens[i].pos_start, tokens[i].pos_end, FALSE))

C16_Witness ==
    /\ Done
    /\ ErrName(error) = "Illegal Character"
    /\ error.details = "'\n'"
    /\ error.pos_start = [idx |-> 1, ln |-> 0, col |-> 1]
    /\ error.pos_end = [idx |-> 2, ln |-> 1, col |-> 0]

\* C17: after Lexer construction the cursor index lies in 0..len(text), the
\* current character is None exactly when the index is len(text) and is the
\* character under the cursor otherwise, and the lexer never advances while
\* the current character is None.
C17_CursorInBounds ==
    /\ [](pc # "run" =>
            /\ pos.idx \in 0..Len(text)
            /\ (current_char = NoChar) <=> (pos.idx = Len(text))
            /\ current_char # NoChar => current_char = text[pos.idx + 1])
    /\ [][(pc # "run" /\ pos' # pos) => current_char # NoChar]_vars

C17_Witness ==
    /\ pc = "make_number"
    /\ current_char = NoChar
    /\ pos.idx = Len(text)
    /\ Len(num_str) >= 2
    /\ Len(tokens) >= 2

\* the Parser object exists
ParserBuilt == pc \in {"parser", "parse", "parsed"} \/ (Done /\ error = Null)

\* C18: the parser never reads past the end of its tokens: the token index
\* lies in 0..len(tokens)-1, the current token is the token at that index,
\* and the parser never advances while the current token is EOF.
C18_ParserInBounds ==
    /\ [](ParserBuilt =>
            /\ tok_idx \in 0..(Len(tokens) - 1)
            /\ current_tok = tokens[tok_idx + 1])
    /\ [][(ParserBuilt /\ tok_idx' # tok_idx) =>
            (current_tok.type # TT_EOF /\ tok_idx' = tok_idx + 1)]_vars

C18_Witness ==
    /\ Done /\ error = Null
    /\ Len(tokens) >= 6
    /\ tok_idx = Len(tokens) - 1
    /\ current_tok.type = TT_EOF
    /\ ErrName(result.error) = "Invalid Syntax"

\* C19: the parser runs only after the lexer has finished without error: a
\* lexer error is IllegalCharacter and run returns it without building a
\* Parser; a parser error is InvalidSyntax; a text with an unrecognized
\* character yields IllegalCharacter whatever the tokens before it.
C19_LexerBeforeParser ==
    /\ error # Null =>
          /\ pc \in {"lexed", "done"}
          /\ ErrName(error) = "Illegal Character"
          /\ tok_idx = -1 /\ current_tok = Null /\ stack = <<>> /\ ret = Null
          /\ Done => result = [ast |-> Null, error |-> error]
    /\ pc \in {"parser", "parse", "parsed"} =>
          /\ error = Null
          /\ tokens # <<>>
          /\ pos.idx = Len(text)
          /\ FirstBad(1, FALSE, 0) = 0
    /\ (ret # Null /\ ret.error # Null) => ErrName(ret.error) = "Invalid Syntax"
    /\ (Done /\ error = Null /\ result.error # Null) =>
          ErrName(result.error) = "Invalid Syntax"
    /\ (Done /\ FirstBad(1, FALSE, 0) > 0) =>
          ErrName(result.error) = "Illegal Character"

C19_Witness ==
    /\ Done
    /\ Len(text) = 3
    /\ text[1] = ")" /\ text[2] = "*" /\ text[3] = "@"
    /\ ErrName(result.error) = "Illegal Character"

\* the text holds nothing but spaces and tabs
Blank == \A i \in DOMAIN text : text[i] \in {" ", "\t"}

\* factor is entered on a token that starts no factor
NoFactor ==
    /\ Running({"factor"}, "start")
    /\ current_tok.type \notin {TT_PLUS, TT_MINUS, TT_INT, TT_FLOAT, TT_LPAREN}

\* C20: for an empty or blank text tokenize returns [EOF] and run returns a
\* null AST and InvalidSyntax "Expected number or '('" at the EOF token, whose
\* start index is the text length; whenever factor is entered on a token that
\* is not '+', '-', Int, Float or '(', it consumes nothing and fails with
\* that error spanning that token.
C20_ExpectedNumber ==
    /\ []((Blank /\ pc \in {"lexed", "done"}) =>
            /\ error = Null
            /\ Len(tokens) = 1
            /\ tokens[1].type = TT_EOF
            /\ tokens[1].pos_start.idx = Len(text)
            /\ Done =>
                 /\ result.ast = Null
                 /\ result.error =
                      [kind |-> "Error", error_name |-> "Invalid Syntax",
                       details |-> "Expected number or '('",
                       pos_start |-> tokens[1].pos_start,
                       pos_end |-> tokens[1].pos_end])
    /\ [][NoFactor =>
            /\ tok_idx' = tok_idx
            /\ current_tok' = current_tok
            /\ ret'.node = Null
            /\ ret'.error =
                 [kind |-> "Error", error_name |-> "Invalid Syntax",
                  details |-> "Expected number or '('",
                  pos_start |-> current_tok.pos_start,
                  pos_end |-> current_tok.pos_end]]_vars

C20_Witness ==
    /\ Done
    /\ Blank
    /\ Len(text) = 3
    /\ text[1] # text[2]
    /\ ErrName(result.error) = "Invalid Syntax"
    /\ result.error.pos_start.idx = 3

====
